---- MODULE Spec2Model ----
(***************************************************************************)
(* Multi-camera face monitor (src/main.py): a main loop that captures one  *)
(* frame set per tick, starts at most one background matching pass every   *)
(* 30 ticks, and displays, per known person, the frame of the camera the   *)
(* last pass found best.  The worker thread (process_multi_camera) and the *)
(* main loop share people_status and is_processing without any lock, so    *)
(* every read and write of those two is a step of its own here.            *)
(***************************************************************************)
EXTENDS Integers, Sequences, FiniteSets, TLC

\* ------------------------------------------------------------ configuration

\* PEOPLE_CONFIG, in dictionary order.
PEOPLE_CONFIG == <<"Naitik", "Isha", "Keval">>

\* len(CAMERA_SOURCES): camera ids are 0 .. NumCams-1.
NumCams == 2
Cams == 0 .. (NumCams - 1)

\* The "high number = bad match" starting value of current_best_dist, and
\* the initial distance of every person (10.0).
WORST_SENTINEL == 10

\* The dispatch interval of the main loop (counter % 30).
K == 30

\* ------------------------------------------------------------------ bounds

\* Reference images that load at start-up (the others print "Error loading").
MaxPeople == 2

\* Distances a verified result carries: 0 .. MaxDist, in the unit of
\* WORST_SENTINEL.  A result is verified when its distance is within the
\* threshold of CHOSEN_MODEL, which lies well below 10.0, so every verified
\* distance is better (lower) than WORST_SENTINEL.
MaxDist == 1

\* The main loop is followed up to this value of counter.
MaxCounter == 31

Distances == 0 .. MaxDist

\* ----------------------------------------------------------------- helpers

\* The lists valid_people can be after the loading loop, when the images of
\* the first n people load and the others do not (n up to MaxPeople).
LoadedLists == {SubSeq(PEOPLE_CONFIG, 1, n) : n \in 0 .. MaxPeople}

Range(s) == {s[i] : i \in DOMAIN s}

\* The keys of a dict whose keys were inserted in ascending order, in
\* iteration order.
RECURSIVE KeysInOrder(_)
KeysInOrder(S) ==
    IF S = {} THEN <<>>
    ELSE LET m == CHOOSE x \in S : \A y \in S : x <= y
         IN <<m>> \o KeysInOrder(S \ {m})

\* Every dict {camera index: frame} the tick with counter value t can
\* capture: a camera whose read fails is absent, and a camera that delivers
\* delivers a fresh frame, which is identified here by the tick it was read at.
FramesAt(t) == UNION {[D -> {t}] : D \in SUBSET Cams}

NoFrames == [c \in {} |-> 0]

\* The status every loaded person starts with.
InitialStatus == [best_cam_index |-> -1, distance |-> WORST_SENTINEL, is_match |-> FALSE]

\* What DeepFace.verify can do for one (frame, reference) pair: raise (no
\* face found, or any other error: line 111 catches both alike), or return
\* a result with "verified" and "distance".  The distance of an unverified
\* result is never read.
OracleOutcomes ==
    {[kind |-> "raise", distance |-> 0], [kind |-> "unverified", distance |-> 0]}
    \cup {[kind |-> "verified", distance |-> d] : d \in Distances}

VARIABLES
    valid_people,      \* the people whose reference image loaded, in order
    caps,              \* the capture sources opened and not yet released
    people_status,     \* name -> [best_cam_index, distance, is_match]
    is_processing,     \* the global busy flag
    counter,           \* the tick counter of the main loop
    current_frames,    \* this tick's {camera index: frame}
    pc,                \* main loop: "capture", "dispatch", "display", "key", "crashed", "done"
    d_i,               \* display loop: index into valid_people
    d_step,            \* display loop: "match", "check", "fetch", "dist", "show"
    d_view,            \* display loop: what this iteration read and will show
    threads,           \* worker threads started and not yet returned
    wpc,               \* worker: "idle", "person", "verify", "pub_match", "pub_cam", "pub_dist", "finally"
    frames_dict,       \* worker: the dict it was started with
    w_i,               \* worker: index into valid_people
    w_cams,            \* worker: cameras of frames_dict still to check for this person
    w_cam_idx,         \* worker: cam_idx of the inner loop
    w_frame,           \* worker: frame of the inner loop, the probe handed to verify
    current_best_cam,
    current_best_dist,
    found_match,
    responses,         \* history: name -> camera -> what verify did, in the pass in flight
    prev_status,       \* history: people_status when the latest pass was started
    starts,            \* history: the values of counter at which a pass was started
    last_end           \* history: how the latest pass ended: "none", "completed", "aborted"

vars == <<valid_people, caps, people_status, is_processing, counter, current_frames, pc,
          d_i, d_step, d_view, threads, wpc, frames_dict, w_i, w_cams, w_cam_idx,
          w_frame, current_best_cam, current_best_dist, found_match, responses,
          prev_status, starts, last_end>>

mainVars == <<counter, current_frames, pc, d_i, d_step, d_view>>
history == <<prev_status, starts, last_end>>
accumulators == <<current_best_cam, current_best_dist, found_match>>
workerLocals == <<wpc, frames_dict, w_i, w_cams, w_cam_idx, w_frame, accumulators,
                  responses>>

\* The locals of one iteration of the display loop: how many fields of the
\* status it has read, their values, and the window content it builds.
NoView == [kind |-> "none", nread |-> 0, is_match |-> FALSE, checked |-> -1,
           cam_idx |-> -1, frame |-> -1, dist |-> -1]

NoResponses == [n \in Range(valid_people) |-> [c \in {} |-> 0]]

Init ==
    /\ valid_people \in LoadedLists
    /\ caps = Cams
    /\ people_status = [n \in Range(valid_people) |-> InitialStatus]
    /\ is_processing = FALSE
    /\ counter = 0
    /\ current_frames = NoFrames
    /\ pc = "capture"
    /\ d_i = 0
    /\ d_step = "match"
    /\ d_view = NoView
    /\ threads = 0
    /\ wpc = "idle"
    /\ frames_dict = NoFrames
    /\ w_i = 0
    /\ w_cams = <<>>
    /\ w_cam_idx = -1
    /\ w_frame = -1
    /\ current_best_cam = -1
    /\ current_best_dist = WORST_SENTINEL
    /\ found_match = FALSE
    /\ responses = NoResponses
    /\ prev_status = people_status
    /\ starts = {}
    /\ last_end = "none"

\* ---------------------------------------------------------------- main loop

\* Lines 131-147 without the test of valid_capture at line 143: the tick
\* goes on to line 150 with or without a frame.
CaptureNoValidCheck ==
    /\ pc = "capture"
    /\ \E f \in FramesAt(counter) :
          /\ current_frames' = f
          /\ pc' = "dispatch"
    /\ UNCHANGED <<valid_people, caps, people_status, is_processing, counter, d_i, d_step,
                   d_view, threads, workerLocals, history>>

\* Line 157 outside the body of line 143: a tick without any frame is
\* counted too.
CaptureCountsEveryTick ==
    /\ pc = "capture"
    /\ \E f \in FramesAt(counter) :
          /\ current_frames' = f
          /\ pc' = IF DOMAIN f = {} THEN "key" ELSE "dispatch"
          /\ counter' = IF DOMAIN f = {} /\ counter < MaxCounter THEN counter + 1 ELSE counter
    /\ UNCHANGED <<valid_people, caps, people_status, is_processing, d_i, d_step,
                   d_view, threads, workerLocals, history>>

\* Lines 131-147: read every camera; a camera whose read fails is absent
\* from current_frames.  Without any frame the tick goes straight to waitKey.
Capture ==
    /\ pc = "capture"
    /\ \E f \in FramesAt(counter) :
          /\ current_frames' = f
          /\ pc' = IF DOMAIN f = {} THEN "key" ELSE "dispatch"
    /\ UNCHANGED <<valid_people, caps, people_status, is_processing, counter, d_i, d_step,
                   d_view, threads, workerLocals, history>>

\* Line 150 without "counter % 30 == 0 and".
EligibleWheneverIdle(c, busy) == ~busy

\* Line 150 without "and not is_processing".
EligibleIgnoringBusy(c, busy) == c % K = 0

\* Line 150: the condition under which a tick starts a pass.
Eligible(c, busy) == c % K = 0 /\ ~busy

\* Line 153 with an entry for every camera: a camera that did not deliver
\* gets an empty frame (-1) instead of being absent.
FramesCopyAllCams(f) == [k \in Cams |-> IF k \in DOMAIN f THEN f[k] ELSE -1]

\* Line 153: the dict handed to the thread, a copy of every frame.
FramesCopy(f) == [k \in DOMAIN f |-> f[k]]

\* Where the main loop goes after line 157: into the display loop, or past
\* it when nobody is loaded.
EnterDisplay ==
    IF valid_people = <<>>
    THEN /\ pc' = "key"
         /\ d_i' = 0
    ELSE /\ pc' = "display"
         /\ d_i' = 1

\* Lines 150-157 without line 151: the thread is started with the flag
\* left as it was.
DispatchNoFlag ==
    /\ pc = "dispatch"
    /\ counter < MaxCounter
    /\ IF Eligible(counter, is_processing)
       THEN /\ frames_dict' = FramesCopy(current_frames)
            /\ threads' = threads + 1
            /\ wpc' = "person"
            /\ w_i' = 1
            /\ prev_status' = people_status
            /\ starts' = starts \cup {counter}
            /\ UNCHANGED <<is_processing, w_cams, w_cam_idx, w_frame, accumulators,
                           responses, last_end>>
       ELSE UNCHANGED <<is_processing, threads, workerLocals, history>>
    /\ counter' = counter + 1
    /\ EnterDisplay
    /\ d_step' = "match"
    /\ UNCHANGED <<valid_people, caps, people_status, current_frames, d_view>>

\* Lines 150-157: start the worker thread if the tick is eligible, then
\* count the tick.
Dispatch ==
    /\ pc = "dispatch"
    /\ counter < MaxCounter
    /\ IF Eligible(counter, is_processing)
       THEN /\ is_processing' = TRUE
            /\ frames_dict' = FramesCopy(current_frames)
            /\ threads' = threads + 1
            /\ wpc' = "person"
            /\ w_i' = 1
            /\ prev_status' = people_status
            /\ starts' = starts \cup {counter}
            /\ UNCHANGED <<w_cams, w_cam_idx, w_frame, accumulators, responses, last_end>>
       ELSE UNCHANGED <<is_processing, threads, workerLocals, history>>
    /\ counter' = counter + 1
    /\ EnterDisplay
    /\ d_step' = "match"
    /\ UNCHANGED <<valid_people, caps, people_status, current_frames, d_view>>

\* The person of the current iteration of the display loop.
DisplayName == valid_people[d_i]

\* Lines 161-163: status = people_status[name], then the first operand of
\* the condition, status["is_match"].
DisplayReadMatch ==
    /\ pc = "display"
    /\ d_step = "match"
    /\ LET m == people_status[DisplayName].is_match
       IN /\ d_view' = [NoView EXCEPT !.nread = 1, !.is_match = m,
                                      !.kind = IF m THEN "none" ELSE "searching"]
          /\ d_step' = IF m THEN "check" ELSE "show"
    /\ UNCHANGED <<valid_people, caps, people_status, is_processing, counter, current_frames,
                   pc, d_i, threads, workerLocals, history>>

\* Line 163, second operand: status["best_cam_index"] in current_frames.
DisplayCheckCam ==
    /\ pc = "display"
    /\ d_step = "check"
    /\ LET c == people_status[DisplayName].best_cam_index
           present == c \in DOMAIN current_frames
       IN /\ d_view' = [d_view EXCEPT !.nread = 2, !.checked = c,
                                      !.kind = IF present THEN "none" ELSE "searching"]
          /\ d_step' = IF present THEN "fetch" ELSE "show"
    /\ UNCHANGED <<valid_people, caps, people_status, is_processing, counter, current_frames,
                   pc, d_i, threads, workerLocals, history>>

\* Lines 165-166: cam_idx = status["best_cam_index"] is read again, and
\* current_frames[cam_idx] raises KeyError when cam_idx is not a key, which
\* ends the main loop.
DisplayFetch ==
    /\ pc = "display"
    /\ d_step = "fetch"
    /\ LET c == people_status[DisplayName].best_cam_index
       IN IF c \in DOMAIN current_frames
          THEN /\ d_view' = [d_view EXCEPT !.nread = 3, !.cam_idx = c,
                                           !.frame = current_frames[c]]
               /\ d_step' = "dist"
               /\ pc' = pc
          ELSE /\ d_view' = [d_view EXCEPT !.nread = 3, !.cam_idx = c]
               /\ d_step' = d_step
               /\ pc' = "crashed"
    /\ UNCHANGED <<valid_people, caps, people_status, is_processing, counter, current_frames,
                   d_i, threads, workerLocals, history>>

\* Lines 169-179: the distance is read and the winner view is drawn.
DisplayDist ==
    /\ pc = "display"
    /\ d_step = "dist"
    /\ d_view' = [d_view EXCEPT !.nread = 4, !.kind = "winner",
                                !.dist = people_status[DisplayName].distance]
    /\ d_step' = "show"
    /\ UNCHANGED <<valid_people, caps, people_status, is_processing, counter, current_frames,
                   pc, d_i, threads, workerLocals, history>>

\* Line 187: the window of this person is shown; next person, or waitKey.
DisplayShow ==
    /\ pc = "display"
    /\ d_step = "show"
    /\ d_view' = NoView
    /\ d_step' = "match"
    /\ IF d_i = Len(valid_people)
       THEN /\ pc' = "key"
            /\ d_i' = 0
       ELSE /\ pc' = pc
            /\ d_i' = d_i + 1
    /\ UNCHANGED <<valid_people, caps, people_status, is_processing, counter, current_frames,
                   threads, workerLocals, history>>

\* Lines 192-194: any key but q, or none: the next tick.
KeyContinue ==
    /\ pc = "key"
    /\ pc' = "capture"
    /\ UNCHANGED <<valid_people, caps, people_status, is_processing, counter, current_frames,
                   d_i, d_step, d_view, threads, workerLocals, history>>

\* Lines 192-199 without the loop of lines 197-198.
KeyQuitNoRelease ==
    /\ pc = "key"
    /\ pc' = "done"
    /\ UNCHANGED <<valid_people, caps, people_status, is_processing, counter, current_frames,
                   d_i, d_step, d_view, threads, workerLocals, history>>

\* Lines 192-199: q leaves the loop, and every capture is released.
KeyQuit ==
    /\ pc = "key"
    /\ pc' = "done"
    /\ caps' = {}
    /\ UNCHANGED <<valid_people, people_status, is_processing, counter, current_frames,
                   d_i, d_step, d_view, threads, workerLocals, history>>

\* ------------------------------------------------------------------- worker

\* The person of the current iteration of the outer loop of the worker.
WorkerName == valid_people[w_i]

\* Line 107 with <= for <.
BetterOrEqual(distance, best) == distance <= best

\* Line 107: is this camera better than the previous best?
Better(distance, best) == distance < best

\* Lines 102-112 without the test of result["verified"] at line 102.
AfterVerifyIgnoringVerdict(acc, cam, r) ==
    IF r.kind \in {"verified", "unverified"}
    THEN [found |-> TRUE,
          dist |-> IF r.distance < acc.dist THEN r.distance ELSE acc.dist,
          cam |-> IF r.distance < acc.dist THEN cam ELSE acc.cam]
    ELSE acc

\* Lines 102-112 on the accumulators acc = [cam, dist, found], for the
\* outcome r of the verify call on camera cam: an exception is swallowed
\* (pass) and an unverified result skipped, both without touching acc.
AfterVerify(acc, cam, r) ==
    IF r.kind = "verified"
    THEN [found |-> TRUE,
          dist |-> IF Better(r.distance, acc.dist) THEN r.distance ELSE acc.dist,
          cam |-> IF Better(r.distance, acc.dist) THEN cam ELSE acc.cam]
    ELSE acc

\* Line 91 reading the global current_frames instead of the argument.
ProbeFrameShared(cam) ==
    IF cam \in DOMAIN current_frames THEN current_frames[cam] ELSE -1

\* Line 91: the frame of camera cam the inner loop hands to verify, taken
\* from the dict the thread was started with.
ProbeFrame(cam) == frames_dict[cam]

\* Lines 84-86 starting from the person's published status instead of the
\* fixed starting values.
WorkerPersonKeepsBest ==
    /\ wpc = "person"
    /\ IF w_i > Len(valid_people)
       THEN /\ wpc' = "finally"
            /\ UNCHANGED <<w_cams, accumulators>>
       ELSE /\ current_best_cam' = people_status[WorkerName].best_cam_index
            /\ current_best_dist' = people_status[WorkerName].distance
            /\ found_match' = FALSE
            /\ w_cams' = KeysInOrder(DOMAIN frames_dict)
            /\ wpc' = IF DOMAIN frames_dict = {} THEN "pub_match" ELSE "verify"
    /\ UNCHANGED <<valid_people, caps, people_status, is_processing, mainVars, threads,
                   frames_dict, w_i, w_cam_idx, w_frame, responses, history>>

\* Lines 84-86 moved above the loop of line 83: the accumulators are set
\* once per pass and carried from one person to the next.
WorkerPersonCarriesOver ==
    /\ wpc = "person"
    /\ IF w_i > Len(valid_people)
       THEN /\ wpc' = "finally"
            /\ UNCHANGED <<w_cams, accumulators>>
       ELSE /\ UNCHANGED accumulators
            /\ w_cams' = KeysInOrder(DOMAIN frames_dict)
            /\ wpc' = IF DOMAIN frames_dict = {} THEN "pub_match" ELSE "verify"
    /\ UNCHANGED <<valid_people, caps, people_status, is_processing, mainVars, threads,
                   frames_dict, w_i, w_cam_idx, w_frame, responses, history>>

\* Lines 83-88: the next person, with fresh accumulators; after the last
\* person the try block ends.
WorkerPerson ==
    /\ wpc = "person"
    /\ IF w_i > Len(valid_people)
       THEN /\ wpc' = "finally"
            /\ UNCHANGED <<w_cams, accumulators>>
       ELSE /\ current_best_cam' = -1
            /\ current_best_dist' = WORST_SENTINEL
            /\ found_match' = FALSE
            /\ w_cams' = KeysInOrder(DOMAIN frames_dict)
            /\ wpc' = IF DOMAIN frames_dict = {} THEN "pub_match" ELSE "verify"
    /\ UNCHANGED <<valid_people, caps, people_status, is_processing, mainVars, threads,
                   frames_dict, w_i, w_cam_idx, w_frame, responses, history>>

\* Lines 119-122 without the finally clause: the thread ends and the flag
\* stays set.
WorkerFaultNoFinally ==
    /\ wpc = "person"
    /\ w_i <= Len(valid_people)
    /\ wpc' = "idle"
    /\ threads' = threads - 1
    /\ UNCHANGED <<valid_people, caps, people_status, is_processing, mainVars,
                   frames_dict, w_i, w_cams, w_cam_idx, w_frame, accumulators,
                   responses, history>>

\* Lines 119-120: an exception raised outside the inner try (at line 88,
\* the only statement of the outer loop that calls anything) is printed and
\* ends the pass; w_i stays on the person that was not finished.
WorkerFault ==
    /\ wpc = "person"
    /\ w_i <= Len(valid_people)
    /\ wpc' = "finally"
    /\ UNCHANGED <<valid_people, caps, people_status, is_processing, mainVars, threads,
                   frames_dict, w_i, w_cams, w_cam_idx, w_frame, accumulators,
                   responses, history>>

\* Lines 91-112 without the inner try: an exception of verify reaches the
\* handler of line 119 and ends the pass.
WorkerVerifyNoInnerTry ==
    /\ wpc = "verify"
    /\ \E r \in OracleOutcomes :
          LET cam == Head(w_cams)
              acc == AfterVerify([cam |-> current_best_cam, dist |-> current_best_dist,
                                  found |-> found_match], cam, r)
          IN /\ w_cam_idx' = cam
             /\ w_frame' = ProbeFrame(cam)
             /\ current_best_cam' = acc.cam
             /\ current_best_dist' = acc.dist
             /\ found_match' = acc.found
             /\ responses' = [responses EXCEPT ![WorkerName] =
                                 [c \in DOMAIN @ \cup {cam} |-> IF c = cam THEN r ELSE @[c]]]
             /\ wpc' = IF r.kind = "raise" THEN "finally"
                       ELSE IF Tail(w_cams) = <<>> THEN "pub_match" ELSE "verify"
    /\ w_cams' = Tail(w_cams)
    /\ UNCHANGED <<valid_people, caps, people_status, is_processing, mainVars, threads,
                   frames_dict, w_i, history>>

\* Lines 91-112: one camera of the snapshot, in the order of the dict: the
\* verify call, whatever it does, and the update of the accumulators.
WorkerVerify ==
    /\ wpc = "verify"
    /\ \E r \in OracleOutcomes :
          LET cam == Head(w_cams)
              acc == AfterVerify([cam |-> current_best_cam, dist |-> current_best_dist,
                                  found |-> found_match], cam, r)
          IN /\ w_cam_idx' = cam
             /\ w_frame' = ProbeFrame(cam)
             /\ current_best_cam' = acc.cam
             /\ current_best_dist' = acc.dist
             /\ found_match' = acc.found
             /\ responses' = [responses EXCEPT ![WorkerName] =
                                 [c \in DOMAIN @ \cup {cam} |-> IF c = cam THEN r ELSE @[c]]]
    /\ w_cams' = Tail(w_cams)
    /\ wpc' = IF Tail(w_cams) = <<>> THEN "pub_match" ELSE "verify"
    /\ UNCHANGED <<valid_people, caps, people_status, is_processing, mainVars, threads,
                   frames_dict, w_i, history>>

\* Line 115.
WorkerPubMatch ==
    /\ wpc = "pub_match"
    /\ people_status' = [people_status EXCEPT ![WorkerName].is_match = found_match]
    /\ wpc' = "pub_cam"
    /\ UNCHANGED <<valid_people, caps, is_processing, mainVars, threads, frames_dict, w_i,
                   w_cams, w_cam_idx, w_frame, accumulators, responses, history>>

\* Line 116.
WorkerPubCam ==
    /\ wpc = "pub_cam"
    /\ people_status' = [people_status EXCEPT ![WorkerName].best_cam_index = current_best_cam]
    /\ wpc' = "pub_dist"
    /\ UNCHANGED <<valid_people, caps, is_processing, mainVars, threads, frames_dict, w_i,
                   w_cams, w_cam_idx, w_frame, accumulators, responses, history>>

\* Line 117, and back to the head of the outer loop.
WorkerPubDist ==
    /\ wpc = "pub_dist"
    /\ people_status' = [people_status EXCEPT ![WorkerName].distance = current_best_dist]
    /\ w_i' = w_i + 1
    /\ wpc' = "person"
    /\ UNCHANGED <<valid_people, caps, is_processing, mainVars, threads, frames_dict,
                   w_cams, w_cam_idx, w_frame, accumulators, responses, history>>

\* Lines 121-122: the flag is cleared and the thread returns; its locals
\* are gone.
WorkerFinally ==
    /\ wpc = "finally"
    /\ is_processing' = FALSE
    /\ threads' = threads - 1
    /\ wpc' = "idle"
    /\ frames_dict' = NoFrames
    /\ w_i' = 0
    /\ w_cams' = <<>>
    /\ w_cam_idx' = -1
    /\ w_frame' = -1
    /\ current_best_cam' = -1
    /\ current_best_dist' = WORST_SENTINEL
    /\ found_match' = FALSE
    /\ responses' = NoResponses
    /\ last_end' = IF w_i > Len(valid_people) THEN "completed" ELSE "aborted"
    /\ UNCHANGED <<valid_people, caps, people_status, mainVars, prev_status, starts>>

\* ------------------------------------------------------------ specification

Next ==
    \/ Capture
    \/ Dispatch
    \/ DisplayReadMatch
    \/ DisplayCheckCam
    \/ DisplayFetch
    \/ DisplayDist
    \/ DisplayShow
    \/ KeyContinue
    \/ KeyQuit
    \/ WorkerPerson
    \/ WorkerFault
    \/ WorkerVerify
    \/ WorkerPubMatch
    \/ WorkerPubCam
    \/ WorkerPubDist
    \/ WorkerFinally

Spec == Init /\ [][Next]_vars

TypeOK ==
    /\ valid_people \in LoadedLists
    /\ caps \subseteq Cams
    /\ is_processing \in BOOLEAN
    /\ counter \in 0 .. MaxCounter
    /\ DOMAIN current_frames \subseteq Cams
    /\ DOMAIN frames_dict \subseteq Cams
    /\ threads \in 0 .. 1

\* ------------------------------------------------------------ the passes

\* The try block of the pass in flight ran to its end: every person was
\* published, and only line 122 is left.
PassCompleted == wpc = "finally" /\ w_i > Len(valid_people)

\* The pass in flight was ended by the handler of line 119.
PassAborted == wpc = "finally" /\ w_i <= Len(valid_people)

\* The cameras whose verify call returned a verified result, among the
\* recorded outcomes resp of one person.
VerifiedCams(resp) == {c \in DOMAIN resp : resp[c].kind = "verified"}

\* The least distance of a verified camera (VerifiedCams(resp) not empty).
MinVerified(resp) ==
    CHOOSE d \in {resp[c].distance : c \in VerifiedCams(resp)} :
        \A c \in VerifiedCams(resp) : d <= resp[c].distance

\* The lowest-indexed camera with that distance.
LowestWinner(resp) ==
    CHOOSE c \in VerifiedCams(resp) :
        /\ resp[c].distance = MinVerified(resp)
        /\ \A c2 \in VerifiedCams(resp) :
              resp[c2].distance = MinVerified(resp) => c <= c2

\* The record the pass in flight is writing for person n, while it is
\* between its first and its last write of it; the record of n otherwise.
Pending(n) ==
    IF wpc \in {"pub_cam", "pub_dist"} /\ WorkerName = n
    THEN [best_cam_index |-> current_best_cam, distance |-> current_best_dist,
          is_match |-> found_match]
    ELSE people_status[n]

\* The fields the display iteration has read so far are those of rec.
Agrees(v, rec) ==
    /\ v.nread >= 1 => v.is_match = rec.is_match
    /\ v.nread >= 2 => v.checked = rec.best_cam_index
    /\ v.nread >= 3 => v.cam_idx = rec.best_cam_index
    /\ v.nread >= 4 => v.dist = rec.distance

\* ------------------------------------------------------------------ claims

\* C1: at most one pass of process_multi_camera is in flight: the number of
\* worker threads started and not yet returned is 0 or 1 in every reachable
\* state, so a tick whose interval trigger fires while is_processing is
\* true has started no thread.
C1_AtMostOnePass == threads \in {0, 1}

\* The pass started at tick 0 is still in flight after the tick with
\* counter 30, whose trigger started nothing.
C1_Witness ==
    /\ counter = K + 1
    /\ starts = {0}
    /\ threads = 1
    /\ is_processing

\* C2: the values one display iteration reads for its person (is_match,
\* best_cam_index at lines 163 and 165, distance) all come from one
\* published record: the record the person had when the latest pass was
\* started, or the record that pass publishes for the person.
C2_WholeRecordReads ==
    (pc \in {"display", "crashed"} /\ d_view.nread > 0)
        => \E rec \in {prev_status[DisplayName], Pending(DisplayName)} :
              Agrees(d_view, rec)

\* C3: while a pass is running (is_processing true, the worker not yet at
\* the end of its try block), people_status holds for every person the
\* values it had when the pass was started: no status changes before the
\* whole pass has completed.
C3_StaleUntilPassCompletes ==
    (is_processing /\ wpc \notin {"idle", "finally"}) => people_status = prev_status

\* C4: in every reachable state, every person's status has is_match true
\* only with best_cam_index >= 0, and is_match false only with
\* best_cam_index = -1.
C4_MatchIffCamera ==
    \A n \in Range(valid_people) :
        /\ people_status[n].is_match => people_status[n].best_cam_index >= 0
        /\ ~people_status[n].is_match => people_status[n].best_cam_index = -1

\* C5: after a completed pass, every person with at least one verified
\* camera in the snapshot has as distance the least distance of the verified
\* cameras of that pass, and as best_cam_index the lowest-indexed camera
\* with that distance.
C5_MinimumWins ==
    PassCompleted =>
        \A n \in Range(valid_people) :
            VerifiedCams(responses[n]) # {} =>
                /\ DOMAIN responses[n] = DOMAIN frames_dict
                /\ people_status[n].distance = MinVerified(responses[n])
                /\ people_status[n].best_cam_index = LowestWinner(responses[n])

\* A completed pass in which both cameras verified a person at the same
\* distance, and camera 0 is the winner; and a person whose camera 1 was
\* strictly better than camera 0.
C5_Witness ==
    /\ PassCompleted
    /\ \E n \in Range(valid_people) :
          /\ VerifiedCams(responses[n]) = Cams
          /\ responses[n][0].distance = responses[n][1].distance
          /\ people_status[n].best_cam_index = 0
    /\ \E n \in Range(valid_people) :
          /\ VerifiedCams(responses[n]) = Cams
          /\ responses[n][1].distance < responses[n][0].distance
          /\ people_status[n].best_cam_index = 1

\* C6: after a completed pass, every person for whom no camera of the
\* snapshot gave a verified result (unverified, or verify raised) has
\* is_match false, best_cam_index -1 and distance 10.0, whatever the status
\* was before the pass.
C6_NoVerifiedResets ==
    PassCompleted =>
        \A n \in Range(valid_people) :
            VerifiedCams(responses[n]) = {} => people_status[n] = InitialStatus

\* A completed pass that took a person who was matched before it back to
\* the initial status, one camera unverified and the other raising.
C6_Witness ==
    /\ PassCompleted
    /\ \E n \in Range(valid_people) :
          /\ prev_status[n].is_match
          /\ DOMAIN responses[n] = Cams
          /\ responses[n][0].kind = "unverified"
          /\ responses[n][1].kind = "raise"
          /\ people_status[n] = InitialStatus

\* The tick, by its value of counter, at which the latest pass was started.
LatestStart == CHOOSE t \in starts : \A u \in starts : u <= t

\* A step that starts a worker thread.
PassStarts == threads' = threads + 1

\* A step of line 150: the tick captured a frame and decides on a pass.
DispatchStep == pc = "dispatch" /\ pc' # "dispatch"

\* A tick that captured no frame: it goes from the capture to waitKey.
FramelessTick == pc = "capture" /\ pc' = "key"

\* C7, as claimed: a pass starts only at a tick whose counter is a multiple
\* of 30 with the scheduler idle, and once a pass has completed every tick
\* whose counter is a multiple of 30 with the scheduler idle starts one.
C7_PassAtEveryIdleMultiple ==
    [][/\ PassStarts => (counter % K = 0 /\ ~is_processing)
       /\ (DispatchStep /\ counter % K = 0 /\ ~is_processing) => PassStarts
       /\ (FramelessTick /\ counter % K = 0 /\ last_end = "completed") => is_processing]_vars

\* C7, amended: a pass starts only at line 150 of a tick whose counter is a
\* multiple of 30 with is_processing false; every tick that captured a frame,
\* with such a counter and the flag false, starts one; and every other tick
\* that captured a frame leaves the worker as it is: a trigger that fell
\* while a pass was running is dropped, and nothing is made up later.
C7_PassAtIdleMultipleWithFrame ==
    [][/\ PassStarts => (DispatchStep /\ counter % K = 0 /\ ~is_processing)
       /\ (DispatchStep /\ counter % K = 0 /\ ~is_processing)
             => (PassStarts /\ starts' = starts \cup {counter} /\ is_processing')
       /\ (DispatchStep /\ ~(counter % K = 0 /\ ~is_processing))
             => UNCHANGED <<threads, is_processing, workerLocals, starts>>
       /\ FramelessTick => UNCHANGED <<threads, is_processing, workerLocals, starts, counter>>]_vars

\* The pass started at tick 0 was running at line 150 of the tick with
\* counter 30, which started nothing, and has ended since: one pass so far.
C7_Witness ==
    /\ counter = K + 1
    /\ starts = {0}
    /\ wpc = "idle"
    /\ ~is_processing

\* C8: a pass that ends, by the end of its try block or by the handler of
\* line 119, clears is_processing (the worker is never idle with the flag
\* set, and line 122 is the step that ends it); when the handler ended it,
\* the people it had not published keep the status they had when the pass
\* was started, and the step that raised leaves the main loop as it was.
C8_PassEndsIdle ==
    /\ [](wpc = "idle" => (~is_processing /\ threads = 0))
    /\ [](PassAborted =>
             \A j \in w_i .. Len(valid_people) :
                 people_status[valid_people[j]] = prev_status[valid_people[j]])
    /\ [][/\ (wpc # "idle" /\ wpc' = "idle") => (wpc = "finally" /\ ~is_processing')
          /\ (wpc = "person" /\ wpc' = "finally" /\ w_i <= Len(valid_people))
                => UNCHANGED <<mainVars, people_status>>]_vars

\* The second pass was aborted after it republished the first person: the
\* second person, matched by the first pass, keeps that status.
C8_Witness ==
    /\ PassAborted
    /\ starts = {0, K}
    /\ Len(valid_people) = 2
    /\ w_i = 2
    /\ people_status[valid_people[1]] # prev_status[valid_people[1]]
    /\ prev_status[valid_people[2]].is_match
    /\ people_status[valid_people[2]] = prev_status[valid_people[2]]
    /\ pc \notin {"crashed", "done"}

\* A step of the inner loop in which verify raised.
RaiseStep ==
    /\ wpc = "verify"
    /\ responses' # responses
    /\ responses'[WorkerName][Head(w_cams)].kind = "raise"

\* C9: a verify call that raises changes nothing but the position of the
\* inner loop: the accumulators and every status stay, the next camera of
\* that person (or the publication of that person) follows, and the pass
\* goes on; so in a completed pass every person was evaluated on every
\* camera of the snapshot, and a person whose camera 0 raised and whose
\* camera 1 verified has the status camera 1 gives.
C9_OracleErrorSkipsPair ==
    /\ [][RaiseStep =>
             /\ UNCHANGED <<accumulators, people_status, w_i, frames_dict, is_processing>>
             /\ w_cams' = Tail(w_cams)
             /\ wpc' = IF Tail(w_cams) = <<>> THEN "pub_match" ELSE "verify"]_vars
    /\ [](PassCompleted =>
             \A n \in Range(valid_people) :
                 /\ DOMAIN responses[n] = DOMAIN frames_dict
                 /\ (/\ DOMAIN responses[n] = Cams
                     /\ responses[n][0].kind = "raise"
                     /\ responses[n][1].kind = "verified")
                       => people_status[n] = [best_cam_index |-> 1,
                                              distance |-> responses[n][1].distance,
                                              is_match |-> TRUE])

\* A completed pass in which verify raised for the first person on camera 0
\* and verified that person on camera 1, and the second person was
\* verified too.
C9_Witness ==
    /\ PassCompleted
    /\ Len(valid_people) = 2
    /\ DOMAIN frames_dict = Cams
    /\ responses[valid_people[1]][0].kind = "raise"
    /\ responses[valid_people[1]][1].kind = "verified"
    /\ people_status[valid_people[1]].best_cam_index = 1
    /\ people_status[valid_people[2]].is_match

\* C10: the pass works on the frames of the tick that started it: the dict
\* the thread gets is that tick's current_frames, it stays the same until
\* the thread returns whatever the main loop captures, every frame in it and
\* every frame handed to verify was read at that tick, and the cameras
\* evaluated for a person are keys of it.
C10_PrivateSnapshot ==
    /\ [][/\ PassStarts => frames_dict' = current_frames
          /\ (wpc # "idle" /\ wpc' # "idle") => frames_dict' = frames_dict]_vars
    /\ [](wpc # "idle" =>
             /\ \A c \in DOMAIN frames_dict : frames_dict[c] = LatestStart
             /\ w_frame \in {-1, LatestStart}
             /\ w_cam_idx \in {-1} \cup DOMAIN frames_dict
             /\ \A n \in Range(valid_people) : DOMAIN responses[n] \subseteq DOMAIN frames_dict)

\* The worker has just evaluated the frame camera 1 delivered at the tick
\* that started the pass, while the main loop is several ticks on and its
\* current_frames holds a later frame of camera 0 only.
C10_Witness ==
    /\ wpc = "verify"
    /\ w_cam_idx = 0
    /\ w_frame = LatestStart
    /\ DOMAIN frames_dict = Cams
    /\ DOMAIN current_frames = {0}
    /\ current_frames[0] > LatestStart + 1

\* Lines 129-194: one step of the main loop, whichever statement it is at.
MainLoopStep ==
    \/ Capture
    \/ Dispatch
    \/ DisplayReadMatch
    \/ DisplayCheckCam
    \/ DisplayFetch
    \/ DisplayDist
    \/ DisplayShow
    \/ KeyContinue
    \/ KeyQuit

\* Lines 83-122: one step of the worker thread.
WorkerStep ==
    \/ WorkerPerson
    \/ WorkerFault
    \/ WorkerVerify
    \/ WorkerPubMatch
    \/ WorkerPubCam
    \/ WorkerPubDist
    \/ WorkerFinally

\* C11: in every reachable state in which the user has not quit, whether a
\* pass is running or not, the main loop has a next step that goes on with
\* its tick (capture, dispatch, the display of each person, the key poll)
\* with the status published at that moment: the worker never stops it.
C11_MainLoopGoesOn ==
    (pc # "done" /\ ~(pc = "dispatch" /\ counter = MaxCounter))
        => ENABLED (MainLoopStep /\ pc' # "crashed")

\* The status the outcomes resp of one person's verify calls amount to: the
\* starting values when no camera verified, else the least verified
\* distance with the lowest-indexed camera that has it.
StatusOf(resp) ==
    IF VerifiedCams(resp) = {}
    THEN InitialStatus
    ELSE [best_cam_index |-> LowestWinner(resp), distance |-> MinVerified(resp),
          is_match |-> TRUE]

\* C12: the statuses a completed pass leaves are a function of the snapshot
\* and of what verify returned in that pass, for every person and whatever
\* the statuses were before the pass: two passes with the same snapshot
\* cameras and the same outcomes leave the same statuses.
C12_ResultOfResponsesOnly ==
    PassCompleted =>
        \A n \in Range(valid_people) :
            /\ DOMAIN responses[n] = DOMAIN frames_dict
            /\ people_status[n] = StatusOf(responses[n])

\* The second pass completed for a person the first pass had matched on
\* camera 1 at the best distance: the second pass verified the person on
\* camera 0 only, at a worse distance, and that is the status now; nothing
\* of the better old record is left.
C12_Witness ==
    /\ PassCompleted
    /\ starts = {0, K}
    /\ \E n \in Range(valid_people) :
          /\ prev_status[n] = [best_cam_index |-> 1, distance |-> 0, is_match |-> TRUE]
          /\ VerifiedCams(responses[n]) = {0}
          /\ people_status[n] = [best_cam_index |-> 0, distance |-> MaxDist, is_match |-> TRUE]

\* The three accumulators of the person the worker is on, as a status.
AccumulatedStatus ==
    [best_cam_index |-> current_best_cam, distance |-> current_best_dist,
     is_match |-> found_match]

\* C13: what the pass computes and publishes for a person depends on that
\* person's verify outcomes only: while the worker is on a person the
\* accumulators are what that person's own outcomes so far amount to, a
\* verify step records an outcome for that person alone and ends in the next
\* camera or the publication whatever the outcome, and a status changes
\* only in the three publication steps of its own person.
C13_IndependentIdentities ==
    /\ [](wpc \in {"verify", "pub_match", "pub_cam", "pub_dist"}
             => AccumulatedStatus = StatusOf(responses[WorkerName]))
    /\ [][/\ wpc = "verify" => wpc' \in {"verify", "pub_match"}
          /\ \A n \in Range(valid_people) :
                /\ people_status'[n] # people_status[n]
                      => (wpc \in {"pub_match", "pub_cam", "pub_dist"} /\ WorkerName = n)
                /\ (wpc = "verify" /\ responses'[n] # responses[n])
                      => WorkerName = n]_vars

\* A completed pass in which every verify call of the first person raised
\* and the second person was verified on both cameras: the second person
\* has the status of its own outcomes, the first the starting values.
C13_Witness ==
    /\ PassCompleted
    /\ Len(valid_people) = 2
    /\ DOMAIN frames_dict = Cams
    /\ \A c \in Cams : responses[valid_people[1]][c].kind = "raise"
    /\ VerifiedCams(responses[valid_people[2]]) = Cams
    /\ people_status[valid_people[1]] = InitialStatus
    /\ people_status[valid_people[2]] = StatusOf(responses[valid_people[2]])
    /\ people_status[valid_people[2]].is_match

\* C14: when a display iteration shows its window, the window is the
\* winner view exactly when the status it read had is_match true and a
\* best_cam_index that is a key of this tick's current_frames, and the
\* searching view otherwise; the winner view carries this tick's frame of a
\* camera, and that camera is the one whose index passed the test.
C14_RendersCheckedCamera ==
    (pc = "display" /\ d_step = "show") =>
        /\ d_view.kind \in {"winner", "searching"}
        /\ d_view.kind = "winner"
              <=> (d_view.is_match /\ d_view.nread >= 2
                     /\ d_view.checked \in DOMAIN current_frames)
        /\ d_view.kind = "winner" =>
              /\ d_view.frame = current_frames[d_view.cam_idx]
              /\ d_view.frame = counter - 1
              /\ d_view.cam_idx = d_view.checked

C16_FramelessTickSkipped ==
    /\ [][FramelessTick =>
             /\ DOMAIN current_frames' = {}
             /\ UNCHANGED <<valid_people, caps, people_status, is_processing, counter, d_i,
                            d_step, d_view, threads, workerLocals, history>>]_vars
    /\ [](pc \in {"dispatch", "display", "crashed"} => DOMAIN current_frames # {})
    /\ []((pc = "key" /\ DOMAIN current_frames = {})
             => (d_i = 0 /\ d_view = NoView /\ ENABLED KeyContinue))
    /\ [][(pc = "key" /\ DOMAIN current_frames = {}) => pc' \in {"key", "capture", "done"}]_vars

\* After a tick on which a person was matched, a tick without any frame
\* has been skipped and the loop is at the capture again, the counter
\* still at 1.
C16_Witness ==
    /\ pc = "capture"
    /\ DOMAIN current_frames = {}
    /\ counter = 1
    /\ \E n \in Range(valid_people) : people_status[n].is_match

\* C17: whenever the main loop is at the key poll, with a pass running or
\* not, q can be taken; taking it ends the loop in that step with every
\* capture released, leaves the worker and the statuses alone, and is the
\* only way the loop ends other than by failing; until then every capture
\* stays open, and a loop that has ended stays ended.
C17_QuitReleasesCaptures ==
    /\ [](pc = "key" => ENABLED KeyQuit)
    /\ [](pc = "done" => caps = {})
    /\ [](pc # "done" => caps = Cams)
    /\ [][/\ (pc # "done" /\ pc' = "done")
                => (/\ pc = "key"
                    /\ caps' = {}
                    /\ UNCHANGED <<people_status, is_processing, threads, workerLocals,
                                   counter, current_frames>>)
          /\ pc = "done" => (pc' = "done" /\ caps' = {})]_vars

\* q was pressed at the end of a tick while the pass of tick 0 was in its
\* inner loop: the loop has ended, the captures are released, and the
\* worker thread is still running.
C17_Witness ==
    /\ pc = "done"
    /\ caps = {}
    /\ counter > 0
    /\ is_processing
    /\ threads = 1
    /\ wpc = "verify"

\* C18: the index line 165 reads and line 166 looks up in current_frames is
\* the index that passed the test of line 163, hence a key of
\* current_frames, whatever the worker wrote in between: the display step
\* never fails.
C18_FetchUsesCheckedIndex ==
    /\ pc # "crashed"
    /\ d_view.nread >= 3 =>
          /\ d_view.cam_idx = d_view.checked
          /\ d_view.cam_idx \in DOMAIN current_frames

\* C19: the counter goes up by exactly one in the dispatch step of a tick,
\* which only a tick with a frame has, and no other step changes it; a
\* thread is started only in such a step, so the dict a worker holds is
\* never empty; and the first tick with a frame, which has counter 0,
\* starts the first pass.
C19_CounterCountsFramedTicks ==
    /\ [][/\ DispatchStep => (counter' = counter + 1 /\ DOMAIN current_frames # {})
          /\ ~DispatchStep => counter' = counter
          /\ PassStarts => (/\ DispatchStep
                            /\ DOMAIN current_frames # {}
                            /\ DOMAIN frames_dict' # {})]_vars
    /\ [](wpc # "idle" => DOMAIN frames_dict # {})
    /\ [](counter = 0 <=> starts = {})
    /\ [](counter > 0 => 0 \in starts)

\* Thirty-one ticks with a frame have been counted, whatever ticks without
\* a frame lay between them; the passes were started at the counter
\* values 0 and 30, the second with camera 1 only.
C19_Witness ==
    /\ counter = K + 1
    /\ starts = {0, K}
    /\ wpc = "verify"
    /\ DOMAIN frames_dict = {1}
    /\ frames_dict[1] = K

\* A step of the worker thread: a pass is in flight and something the
\* worker owns or writes changes.
WorkerMoves ==
    /\ wpc # "idle"
    /\ <<workerLocals, people_status, is_processing, threads>>'
          # <<workerLocals, people_status, is_processing, threads>>

\* C20: is_processing is true exactly while a worker thread exists; it
\* becomes true only in the dispatch step that starts the thread and false
\* only in the worker's last step (line 122); a status changes only in a
\* publication step of the worker, never in a step of the main loop; and
\* a step of the worker leaves the counter, current_frames, the display
\* loop and the captures as they are.
C20_FlagTracksWorker ==
    /\ [](is_processing <=> wpc # "idle")
    /\ [](is_processing <=> threads = 1)
    /\ [][/\ (~is_processing /\ is_processing') => (DispatchStep /\ PassStarts)
          /\ (is_processing /\ ~is_processing')
                => (wpc = "finally" /\ wpc' = "idle" /\ threads' = 0)
          /\ people_status' # people_status
                => (/\ wpc \in {"pub_match", "pub_cam", "pub_dist"}
                    /\ UNCHANGED <<mainVars, caps, is_processing>>)
          /\ (mainVars' # mainVars \/ caps' # caps) => people_status' = people_status
          /\ WorkerMoves => UNCHANGED <<mainVars, caps>>]_vars

\* The worker is writing the second field of a status in the middle of a
\* display iteration of a later tick; the flag is set.
C20_Witness ==
    /\ wpc = "pub_cam"
    /\ is_processing
    /\ pc = "display"
    /\ d_step = "check"
    /\ counter > 1
    /\ people_status # prev_status

====
